---- MODULE Spec2Model ----
(***************************************************************************)
(* A model of mcp-server-fetch-typescript (src/src/index.ts).              *)
(*                                                                         *)
(* Part 1 models the CallToolRequestSchema handler and the asynchronous    *)
(* helpers it awaits (getRawTextString, getHtmlString): every await is a   *)
(* point where the call is suspended, and the Resolve/Reject actions are   *)
(* the settlements of the awaited promise.  Several calls are in flight    *)
(* at once and interleave at their awaits.                                 *)
(*                                                                         *)
(* Part 2 models the two HTML-to-Markdown conversions                      *)
(* (getMarkdownStringFromHtmlByTD, getMarkdownStringFromHtmlByNHM) as      *)
(* operators over a document tree.  Strings are sequences of tokens: a     *)
(* token is a word, a blank " ", a line break "\n" or a piece of markup.   *)
(***************************************************************************)
EXTENDS Integers, Sequences, FiniteSets, TLC

VARIABLES
    pc,         \* per call: where the handler is suspended, or how it ended
    name,       \* per call: request.params.name
    arguments,  \* per call: request.params.arguments
    url,        \* per call: the handler's const url
    browser,    \* per frame: getHtmlString's local `browser` (0 is null)
    htmlString, \* per frame: getHtmlString's local `htmlString`
    completion, \* per call: the completion of getHtmlString's try block,
                \* held while the finally block awaits close()
    closing,    \* per call: the browser whose close() this call awaits (0: none)
    result,     \* per call: what the handler returned or threw
    trace,      \* per call: the external operations it started, in order
    served,     \* per call: the content the network served to it
    closeThrew, \* per call: whether its browser.close() rejected
    failure,    \* per call: the awaited step that rejected ("" : none)
    chromium,   \* per browser: the launched browser processes
    doc,        \* conversion run: the parsed document
    mainOnly,   \* conversion run: the mainOnly argument
    strategy,   \* conversion run: which conversion was applied ("" : none yet)
    ruleNode,   \* conversion run: the element a rule's replacement was called on
    markdown    \* conversion run: the string it returned

vars == <<pc, name, arguments, url, browser, htmlString, completion, closing,
          result, trace, served, closeThrew, failure, chromium,
          doc, mainOnly, strategy, ruleNode, markdown>>

serverVars == <<pc, name, arguments, url, browser, htmlString, completion,
                closing, result, trace, served, closeThrew, failure,
                chromium>>

convVars == <<doc, mainOnly, strategy, ruleNode, markdown>>

(***************************************************************************)
(* Strings.  A string is a sequence of tokens.                             *)
(***************************************************************************)

\* JavaScript's white space, as far as the token alphabet has any.
IsWhiteSpace(t) == t \in {" ", "\n", "\t"}

IsLineBreak(t) == t \in {"\n"}

RECURSIVE TrimStart(_)
\* String.prototype.trimStart
TrimStart(s) ==
    IF s = <<>> THEN <<>>
    ELSE IF IsWhiteSpace(Head(s)) THEN TrimStart(Tail(s))
    ELSE s

RECURSIVE TrimEnd(_)
\* String.prototype.trimEnd
TrimEnd(s) ==
    IF s = <<>> THEN <<>>
    ELSE IF IsWhiteSpace(s[Len(s)]) THEN TrimEnd(SubSeq(s, 1, Len(s) - 1))
    ELSE s

\* String.prototype.trim, as used on textContent at index.ts 225, 233, 251, 256
Trim(s) == TrimEnd(TrimStart(s))

RECURSIVE Concat(_)
\* The concatenation of a sequence of strings.
Concat(ss) == IF ss = <<>> THEN <<>> ELSE Head(ss) \o Concat(Tail(ss))

RECURSIVE JoinWith(_, _)
\* Array.prototype.join(sep)
JoinWith(ss, sep) ==
    IF ss = <<>> THEN <<>>
    ELSE IF Len(ss) = 1 THEN Head(ss)
    ELSE Head(ss) \o sep \o JoinWith(Tail(ss), sep)

\* s has sub as a substring
Contains(s, sub) ==
    \E i \in 1..(Len(s) - Len(sub) + 1) : SubSeq(s, i, i + Len(sub) - 1) = sub

RECURSIVE SplitLines(_)
\* s.split("\n")
SplitLines(s) ==
    IF \A i \in 1..Len(s) : ~IsLineBreak(s[i]) THEN <<s>>
    ELSE LET i == CHOOSE k \in 1..Len(s) :
                     /\ IsLineBreak(s[k])
                     /\ \A m \in 1..(k - 1) : ~IsLineBreak(s[m])
         IN  <<SubSeq(s, 1, i - 1)>> \o SplitLines(SubSeq(s, i + 1, Len(s)))

\* The number of tokens of s equal to t.
Count(s, t) == Cardinality({i \in 1..Len(s) : s[i] = t})

(***************************************************************************)
(* The DOM.  A node is a record [kind, text, kids]: kind is the tag name   *)
(* ("#text" for a text node), text the data of a text node, kids the child *)
(* nodes in document order.                                                *)
(***************************************************************************)

Text(s) == [kind |-> "#text", text |-> s, kids |-> <<>>]

El(k, kids) == [kind |-> k, text |-> <<>>, kids |-> kids]

IsText(n) == n.kind = "#text"

RECURSIVE TextContent(_)
\* Node.textContent: the data of every descendant text node, in document
\* order, whatever element it sits in (script, style and nav included).
TextContent(n) ==
    IF IsText(n) THEN n.text
    ELSE Concat([i \in 1..Len(n.kids) |-> TextContent(n.kids[i])])

RECURSIVE Descendants(_)
\* The descendants of n in document order (n itself excluded).
Descendants(n) ==
    Concat([i \in 1..Len(n.kids) |-> <<n.kids[i]>> \o Descendants(n.kids[i])])

RECURSIVE Nodes(_)
\* The nodes of the tree under n, n included.
Nodes(n) == {n} \cup UNION {Nodes(n.kids[i]) : i \in 1..Len(n.kids)}

\* Element.querySelectorAll with a list of tag names as the selector.
QuerySelectorAll(n, kinds) ==
    SelectSeq(Descendants(n), LAMBDA d : d.kind \in kinds)

\* Element.children: the child elements, text nodes left out.
Children(n) == SelectSeq(n.kids, LAMBDA d : ~IsText(d))

(***************************************************************************)
(* Turndown (the library behind getMarkdownStringFromHtmlByTD).            *)
(***************************************************************************)

\* Turndown's block elements, among the tag names of the model.
BlockKinds == {"body", "div", "p", "pre", "header", "footer", "nav", "table",
               "tr", "th", "td", "dl", "dt", "dd"}

\* Turndown's elements that mean something even when blank.
MeaningfulWhenBlankKinds == {"table", "th", "td", "script"}

RECURSIVE CollapseRuns(_)
\* data.replace(/[ \r\n\t]+/g, ' ')
CollapseRuns(s) ==
    IF s = <<>> THEN <<>>
    ELSE IF IsWhiteSpace(Head(s))
         THEN <<" ">> \o CollapseRuns(TrimStart(s))
         ELSE <<Head(s)>> \o CollapseRuns(Tail(s))

RECURSIVE CollapseWhitespace(_)
\* The white-space collapsing Turndown applies to the parsed document before
\* any rule runs: outside pre, every run of white space in a text node becomes
\* one blank; the content of a pre element is left as it is.  (Turndown also
\* drops the blank at the edge of a block; the rules below trim those edges
\* themselves.)
CollapseWhitespace(n) ==
    IF IsText(n) THEN Text(CollapseRuns(n.text))
    ELSE IF n.kind = "pre" THEN n
    ELSE El(n.kind, [i \in 1..Len(n.kids) |-> CollapseWhitespace(n.kids[i])])

\* Turndown's node.isBlank
IsBlank(n) ==
    /\ n.kind \notin MeaningfulWhenBlankKinds
    /\ Trim(TextContent(n)) = <<>>
    /\ \A i \in 1..Len(Descendants(n)) :
           Descendants(n)[i].kind \notin MeaningfulWhenBlankKinds

RECURSIVE TrimLeadingNewlines(_)
TrimLeadingNewlines(s) ==
    IF s # <<>> /\ IsLineBreak(Head(s)) THEN TrimLeadingNewlines(Tail(s)) ELSE s

RECURSIVE TrimTrailingNewlines(_)
TrimTrailingNewlines(s) ==
    IF s # <<>> /\ IsLineBreak(s[Len(s)])
    THEN TrimTrailingNewlines(SubSeq(s, 1, Len(s) - 1))
    ELSE s

Max(a, b) == IF a >= b THEN a ELSE b

Min(a, b) == IF a <= b THEN a ELSE b

\* Turndown's join(output, replacement): at most two line breaks between them.
Join(output, replacement) ==
    LET s1  == TrimTrailingNewlines(output)
        s2  == TrimLeadingNewlines(replacement)
        nls == Max(Len(output) - Len(s1), Len(replacement) - Len(s2))
    IN  s1 \o SubSeq(<<"\n", "\n">>, 1, Min(nls, 2)) \o s2

\* The cells' texts of a row: index.ts 223-225 and 232-234
CellTexts(row) ==
    LET cells == QuerySelectorAll(row, {"th", "td"})
    IN  [i \in 1..Len(cells) |-> Trim(TextContent(cells[i]))]

\* The rows' lines: the loop at index.ts 230-236 runs from FirstDataRow.
FirstDataRow == 2

RECURSIVE DataRows(_, _)
\* index.ts 230-236, for rows i..Len(rows)
DataRows(rows, i) ==
    IF i > Len(rows) THEN <<>>
    ELSE <<"\n", "|", " ">> \o JoinWith(CellTexts(rows[i]), <<" ", "|", " ">>)
         \o <<" ", "|">> \o DataRows(rows, i + 1)

\* index.ts 226: one '---' per cell of the header row, joined by '|'
Separator(headerCells) ==
    JoinWith([i \in 1..Len(headerCells) |-> <<"---">>], <<"|">>)

\* The replacement of the rule 'table': index.ts 216-238
TableReplacement(node) ==
    LET rows == QuerySelectorAll(node, {"tr"})
    IN  IF Len(rows) = 0 THEN <<>>
        ELSE LET headerCells == CellTexts(rows[1])
             IN  <<"\n", "|", " ">> \o JoinWith(headerCells, <<" ", "|", " ">>)
                 \o <<" ", "|", "\n", "|">> \o Separator(headerCells) \o <<"|">>
                 \o DataRows(rows, FirstDataRow) \o <<"\n">>

RECURSIVE DlItems(_)
\* The forEach at index.ts 249-261 (currentDt is written and never read)
DlItems(items) ==
    IF items = <<>> THEN <<>>
    ELSE LET item == Head(items)
             t    == Trim(TextContent(item))
         IN  (IF item.kind = "dt" /\ t # <<>> THEN <<"**">> \o t \o <<":", "**">>
              ELSE IF item.kind = "dd" /\ t # <<>> THEN <<" ">> \o t \o <<"\n">>
              ELSE <<>>)
             \o DlItems(Tail(items))

\* The replacement of the rule 'dl': index.ts 244-263
DlReplacement(node) == <<"\n", "\n">> \o DlItems(Children(node)) \o <<"\n">>

\* turndownService.remove(...): index.ts 204-211
TDRemoved(main) == {"script", "style"}
                  \cup (IF main THEN {"header", "footer", "nav"} ELSE {})

\* The leading and trailing white space of an inline element's text, which
\* Turndown keeps around the element's replacement.
LeadingWhitespace(n) ==
    IF n.kind \in BlockKinds THEN <<>>
    ELSE LET s == TextContent(n) IN SubSeq(s, 1, Len(s) - Len(TrimStart(s)))

TrailingWhitespace(n) ==
    IF n.kind \in BlockKinds \/ Trim(TextContent(n)) = <<>> THEN <<>>
    ELSE LET s == TextContent(n) IN SubSeq(s, Len(TrimEnd(s)) + 1, Len(s))

RECURSIVE TDProcess(_, _)
RECURSIVE TDReplacementForNode(_, _)
\* Turndown's process(parentNode): the replacements of the child nodes, joined.
TDProcess(parent, removed) ==
    LET step[i \in 0..Len(parent.kids)] ==
            IF i = 0 THEN <<>>
            ELSE LET kid == parent.kids[i]
                 IN  Join(step[i - 1],
                          IF IsText(kid) THEN kid.text
                          ELSE TDReplacementForNode(kid, removed))
    IN  step[Len(parent.kids)]

\* Turndown's replacementForNode with the rules of index.ts 203-264: the blank
\* rule first, then the added rules (table, dl), then the removed elements,
\* then the default rule.
TDReplacementForNode(node, removed) ==
    LET inner   == TDProcess(node, removed)
        flanked == LeadingWhitespace(node) # <<>> \/ TrailingWhitespace(node) # <<>>
        content == IF flanked THEN Trim(inner) ELSE inner
        block   == node.kind \in BlockKinds
        replacement ==
            IF IsBlank(node) THEN (IF block THEN <<"\n", "\n">> ELSE <<>>)
            ELSE IF node.kind = "dl" THEN DlReplacement(node)
            ELSE IF node.kind = "table" THEN TableReplacement(node)
            ELSE IF node.kind \in removed THEN <<>>
            ELSE IF block THEN <<"\n", "\n">> \o content \o <<"\n", "\n">>
            ELSE content
    IN  LeadingWhitespace(node) \o replacement \o TrailingWhitespace(node)

\* getMarkdownStringFromHtmlByTD after the fetch: index.ts 203-268
\* (turndown() ends by trimming the line breaks at both ends)
ConvertTD(html, main) ==
    TrimEnd(TrimLeadingNewlines(TDProcess(CollapseWhitespace(html), TDRemoved(main))))

(***************************************************************************)
(* node-html-markdown (the library behind getMarkdownStringFromHtmlByNHM). *)
(* Its built-in table and code-block translators are not modelled: the     *)
(* conversion is applied to documents without table and pre elements.      *)
(***************************************************************************)

\* The elements node-html-markdown ignores by default, among the model's.
NHMDefaultIgnored == {"script", "style"}

\* The elements node-html-markdown surrounds with a blank line by default.
NHMBlockKinds == {"div", "p", "header", "footer", "nav"}

\* customTranslators with ignore: true (index.ts 306-316), on top of the
\* library's defaults
NHMIgnored(main) ==
    NHMDefaultIgnored \cup (IF main THEN {"header", "footer", "nav"} ELSE {})

\* The translator of an element: index.ts 278-291 for dl, dt and dd, the
\* library's defaults for the rest.
NHMTranslator(kind) ==
    CASE kind = "dl" -> [prefix |-> <<>>, postfix |-> <<>>, newlines |-> 1]
      [] kind = "dt" -> [prefix |-> <<"**">>, postfix |-> <<":", "**", " ">>,
                         newlines |-> 0]
      [] kind = "dd" -> [prefix |-> <<>>, postfix |-> <<"\n">>, newlines |-> 0]
      [] kind \in NHMBlockKinds ->
                        [prefix |-> <<>>, postfix |-> <<>>, newlines |-> 2]
      [] OTHER       -> [prefix |-> <<>>, postfix |-> <<>>, newlines |-> 0]

\* The number of line breaks the text ends with.
TrailingNewlines(s) == Len(s) - Len(TrimTrailingNewlines(s))

\* The visitor's appendNewlines(count): line breaks up to count at the end.
AppendNewlines(acc, count) ==
    acc \o [i \in 1..Max(0, count - TrailingNewlines(acc)) |-> "\n"]

\* The visitor on a text node: white space collapsed, and none written at the
\* start of the output or after white space.
NHMText(acc, data) ==
    LET s == CollapseRuns(data)
    IN  IF acc = <<>> \/ IsWhiteSpace(acc[Len(acc)]) THEN acc \o TrimStart(s)
        ELSE acc \o s

RECURSIVE NHMVisit(_, _, _)
\* The visitor on a node: nothing for an ignored element (its children are not
\* visited); otherwise the translator's prefix, the children, its postfix,
\* within its surrounding line breaks.
NHMVisit(acc, node, ignored) ==
    IF IsText(node) THEN NHMText(acc, node.text)
    ELSE IF node.kind \in ignored THEN acc
    ELSE LET cfg == NHMTranslator(node.kind)
             opened == AppendNewlines(acc, cfg.newlines) \o cfg.prefix
             inner[i \in 0..Len(node.kids)] ==
                 IF i = 0 THEN opened
                 ELSE NHMVisit(inner[i - 1], node.kids[i], ignored)
         IN  AppendNewlines(inner[Len(node.kids)] \o cfg.postfix, cfg.newlines)

\* getMarkdownStringFromHtmlByNHM after the fetch: index.ts 278-324
\* (translate() ends by trimming the line breaks at both ends)
ConvertNHM(html, main) ==
    TrimTrailingNewlines(
        TrimLeadingNewlines(NHMVisit(<<>>, html, NHMIgnored(main))))

\* The documents the model of node-html-markdown covers.
NHMCovers(html) ==
    \A i \in 1..Len(Descendants(html)) :
        Descendants(html)[i].kind \notin
            {"table", "caption", "tr", "th", "td", "pre"}

(***************************************************************************)
(* The tool-call handler and the helpers it awaits.                        *)
(***************************************************************************)

\* The number of tool calls in flight at once.
NumCalls == 2

Calls == 1..NumCalls

\* The tools of the ListTools handler: index.ts 53-110
ToolNames == {"get_raw_text", "get_rendered_html", "get_markdown",
              "get_markdown_summary"}

\* The names a request may carry: the four tools and one that is none of them.
RequestNames == ToolNames \cup {"get_pdf"}

\* JavaScript values: undefined, and strings.
Undefined == [type |-> "undefined", value |-> ""]

JsString(v) == [type |-> "string", value |-> v]

\* request.params.arguments: absent, or an object whose url is absent, the
\* empty string or an address.
NoArguments == [present |-> FALSE, url |-> Undefined]

ArgumentsValues ==
    {NoArguments,
     [present |-> TRUE, url |-> Undefined],
     [present |-> TRUE, url |-> JsString("")],
     [present |-> TRUE, url |-> JsString("http://a")]}

\* request.params.arguments?.url: index.ts 120
OptionalUrl(args) == IF args.present THEN args.url ELSE Undefined

\* JavaScript's String(v): index.ts 120
StringOf(v) == IF v.type = "undefined" THEN "undefined" ELSE v.value

\* JavaScript's !url for a string: index.ts 122
IsFalsy(str) == str = ""

\* The value of a variable that holds no document.
NoDocument == El("#none", <<>>)

\* The pages the network serves in the model of the handler.
ServedDocuments ==
    {El("body", <<El("nav", <<Text(<<"Menu">>)>>), El("p", <<Text(<<"Body">>)>>)>>),
     El("body", <<El("dl", <<El("dt", <<Text(<<"Term">>)>>),
                            El("dd", <<Text(<<"Def">>)>>)>>),
                  El("script", <<Text(<<"Code">>)>>)>>)}

Op(op) == [op |-> op, main |-> FALSE]

Conversion(op, main) == [op |-> op, main |-> main]

ConversionOps == {"turndown", "NodeHtmlMarkdown.translate"}

NoResult ==
    [status |-> "pending", format |-> "", html |-> NoDocument,
     markdown |-> <<>>, error |-> ""]

Thrown(message) ==
    [status |-> "error", format |-> "", html |-> NoDocument,
     markdown |-> <<>>, error |-> message]

\* { content: [{ type: "text", text }] } with text a fetched body or page
HtmlContent(format, html) ==
    [status |-> "content", format |-> format, html |-> html,
     markdown |-> <<>>, error |-> ""]

\* { content: [{ type: "text", text }] } with text a Markdown string
MarkdownContent(md) ==
    [status |-> "content", format |-> "markdown", html |-> NoDocument,
     markdown |-> md, error |-> ""]

NoCompletion == [type |-> "none", html |-> NoDocument, error |-> ""]

ReturnCompletion(html) == [type |-> "return", html |-> html, error |-> ""]

ThrowCompletion(message) == [type |-> "throw", html |-> NoDocument, error |-> message]

\* The frame that holds the locals of call c's getHtmlString: one per
\* invocation (index.ts 174-175: `let browser` is declared inside the function).
SharedFrame(c) == 1

Frame(c) == c

\* The mainOnly argument each Markdown tool passes: index.ts 147 (omitted, so
\* the default false of index.ts 274) and index.ts 155.
MainOnlyArgumentSwapped(tool) == tool = "get_markdown"

MainOnlyArgument(tool) == tool = "get_markdown_summary"

\* What the handler does once getHtmlString has settled with `settled`:
\* index.ts 135-158, 201-268, 276-324.  A rejection propagates through the
\* conversion function and the handler; a page is returned as it is or converted.
AfterHtmlBestEffort(c, settled) ==
    /\ pc' = [pc EXCEPT ![c] = "returned"]
    /\ result' = [result EXCEPT ![c] = HtmlContent("html", settled.html)]
    /\ UNCHANGED trace

AfterHtml(c, settled) ==
    IF settled.type = "throw"
    THEN /\ pc' = [pc EXCEPT ![c] = "thrown"]
         /\ result' = [result EXCEPT ![c] = Thrown(settled.error)]
         /\ UNCHANGED trace
    ELSE /\ pc' = [pc EXCEPT ![c] = "returned"]
         /\ CASE name[c] = "get_rendered_html" ->
                   /\ result' = [result EXCEPT ![c] = HtmlContent("html", settled.html)]
                   /\ UNCHANGED trace
              [] name[c] = "get_markdown" ->
                   /\ result' = [result EXCEPT ![c] = MarkdownContent(
                          ConvertNHM(settled.html, MainOnlyArgument(name[c])))]
                   /\ trace' = [trace EXCEPT ![c] = Append(@,
                          Conversion("NodeHtmlMarkdown.translate",
                                     MainOnlyArgument(name[c])))]
              [] OTHER ->
                   /\ result' = [result EXCEPT ![c] = MarkdownContent(
                          ConvertTD(settled.html, MainOnlyArgument(name[c])))]
                   /\ trace' = [trace EXCEPT ![c] = Append(@,
                          Conversion("turndown", MainOnlyArgument(name[c])))]

\* The finally block of getHtmlString, entered with the try block's
\* completion: index.ts 185-193.  browser is not null here, so close() is
\* called and awaited.
EnterFinallyOnReturnOnly(c, settled) ==
    /\ completion' = [completion EXCEPT ![c] = settled]
    /\ IF settled.type = "return"
       THEN /\ closing' = [closing EXCEPT ![c] = browser[Frame(c)]]
            /\ chromium' = [chromium EXCEPT ![browser[Frame(c)]].closeCalls = @ + 1,
                                            ![browser[Frame(c)]].closers = @ \cup {c}]
            /\ trace' = [trace EXCEPT ![c] = Append(@, Op("browser.close"))]
            /\ pc' = [pc EXCEPT ![c] = "close"]
            /\ UNCHANGED result
       ELSE /\ pc' = [pc EXCEPT ![c] = "thrown"]
            /\ result' = [result EXCEPT ![c] = Thrown(settled.error)]
            /\ UNCHANGED <<closing, chromium, trace>>

EnterFinally(c, settled) ==
    /\ completion' = [completion EXCEPT ![c] = settled]
    /\ closing' = [closing EXCEPT ![c] = browser[Frame(c)]]
    /\ chromium' = [chromium EXCEPT ![browser[Frame(c)]].closeCalls = @ + 1,
                                    ![browser[Frame(c)]].closers = @ \cup {c}]
    /\ trace' = [trace EXCEPT ![c] = Append(@, Op("browser.close"))]
    /\ pc' = [pc EXCEPT ![c] = "close"]
    /\ UNCHANGED result

\* The handler up to its first await: index.ts 119-162, 167-168, 174-180,
\* 201, 276.  It throws, or starts the raw fetch, or (through a conversion
\* function or directly) calls getHtmlString, which starts the browser launch.
CallTool(c, tool, args) ==
    /\ pc[c] = "idle"
    /\ name' = [name EXCEPT ![c] = tool]
    /\ arguments' = [arguments EXCEPT ![c] = args]
    /\ url' = [url EXCEPT ![c] = StringOf(OptionalUrl(args))]
    /\ IF IsFalsy(StringOf(OptionalUrl(args)))
       THEN /\ pc' = [pc EXCEPT ![c] = "thrown"]
            /\ result' = [result EXCEPT ![c] = Thrown("url is required !")]
            /\ UNCHANGED <<trace, browser>>
       ELSE CASE tool = "get_raw_text" ->
                   /\ pc' = [pc EXCEPT ![c] = "axios.get"]
                   /\ trace' = [trace EXCEPT ![c] = Append(@, Op("axios.get"))]
                   /\ UNCHANGED <<result, browser>>
              [] tool \in {"get_rendered_html", "get_markdown",
                           "get_markdown_summary"} ->
                   /\ pc' = [pc EXCEPT ![c] = "chromium.launch"]
                   /\ browser' = [browser EXCEPT ![Frame(c)] = 0]
                   /\ trace' = [trace EXCEPT ![c] = Append(@, Op("chromium.launch"))]
                   /\ UNCHANGED result
              [] OTHER ->
                   /\ pc' = [pc EXCEPT ![c] = "thrown"]
                   /\ result' = [result EXCEPT ![c] = Thrown("Unknown tool")]
                   /\ UNCHANGED <<trace, browser>>
    /\ UNCHANGED <<htmlString, completion, closing, served, closeThrew,
                   failure, chromium>>
    /\ UNCHANGED convVars

\* axios.get resolves: index.ts 168-170, 128-133
AxiosResolve(c, data) ==
    /\ pc[c] = "axios.get"
    /\ served' = [served EXCEPT ![c] = data]
    /\ pc' = [pc EXCEPT ![c] = "returned"]
    /\ result' = [result EXCEPT ![c] = HtmlContent("raw", data)]
    /\ UNCHANGED <<name, arguments, url, browser, htmlString, completion,
                   closing, trace, closeThrew, failure, chromium>>
    /\ UNCHANGED convVars

\* axios.get rejects: the rejection propagates out of the handler.
AxiosReject(c) ==
    /\ pc[c] = "axios.get"
    /\ failure' = [failure EXCEPT ![c] = "axios.get"]
    /\ pc' = [pc EXCEPT ![c] = "thrown"]
    /\ result' = [result EXCEPT ![c] = Thrown("axios.get")]
    /\ UNCHANGED <<name, arguments, url, browser, htmlString, completion,
                   closing, trace, served, closeThrew, chromium>>
    /\ UNCHANGED convVars

\* chromium.launch resolves: index.ts 177-181.  The browser is assigned and
\* newPage is called.
LaunchResolve(c) ==
    /\ pc[c] = "chromium.launch"
    /\ chromium' = [chromium EXCEPT ![c].launched = TRUE, ![c].open = TRUE]
    /\ browser' = [browser EXCEPT ![Frame(c)] = c]
    /\ trace' = [trace EXCEPT ![c] = Append(@, Op("browser.newPage"))]
    /\ pc' = [pc EXCEPT ![c] = "browser.newPage"]
    /\ UNCHANGED <<name, arguments, url, htmlString, completion, closing,
                   result, served, closeThrew, failure>>
    /\ UNCHANGED convVars

\* chromium.launch rejects: index.ts 177, 185-193.  browser is still null, so
\* the finally block calls nothing and the rejection propagates.
LaunchReject(c) ==
    /\ pc[c] = "chromium.launch"
    /\ failure' = [failure EXCEPT ![c] = "chromium.launch"]
    /\ completion' = [completion EXCEPT ![c] = ThrowCompletion("chromium.launch")]
    /\ IF browser[Frame(c)] = 0
       THEN /\ AfterHtml(c, ThrowCompletion("chromium.launch"))
            /\ UNCHANGED <<closing, chromium>>
       ELSE /\ closing' = [closing EXCEPT ![c] = browser[Frame(c)]]
            /\ chromium' = [chromium EXCEPT ![browser[Frame(c)]].closeCalls = @ + 1,
                                            ![browser[Frame(c)]].closers = @ \cup {c}]
            /\ trace' = [trace EXCEPT ![c] = Append(@, Op("browser.close"))]
            /\ pc' = [pc EXCEPT ![c] = "close"]
            /\ UNCHANGED result
    /\ UNCHANGED <<name, arguments, url, browser, htmlString, served, closeThrew>>
    /\ UNCHANGED convVars

\* browser.newPage resolves: index.ts 181-182.  goto is called.
NewPageResolve(c) ==
    /\ pc[c] = "browser.newPage"
    /\ trace' = [trace EXCEPT ![c] = Append(@, Op("page.goto"))]
    /\ pc' = [pc EXCEPT ![c] = "page.goto"]
    /\ UNCHANGED <<name, arguments, url, browser, htmlString, completion,
                   closing, result, served, closeThrew, failure, chromium>>
    /\ UNCHANGED convVars

\* browser.newPage rejects: index.ts 181, 185-193
NewPageReject(c) ==
    /\ pc[c] = "browser.newPage"
    /\ failure' = [failure EXCEPT ![c] = "browser.newPage"]
    /\ EnterFinally(c, ThrowCompletion("browser.newPage"))
    /\ UNCHANGED <<name, arguments, url, browser, htmlString, served, closeThrew>>
    /\ UNCHANGED convVars

\* page.goto resolves: index.ts 182-183.  content is called.
GotoResolve(c) ==
    /\ pc[c] = "page.goto"
    /\ trace' = [trace EXCEPT ![c] = Append(@, Op("page.content"))]
    /\ pc' = [pc EXCEPT ![c] = "page.content"]
    /\ UNCHANGED <<name, arguments, url, browser, htmlString, completion,
                   closing, result, served, closeThrew, failure, chromium>>
    /\ UNCHANGED convVars

\* page.goto rejects (a navigation error, or the TIMEOUT of index.ts 44
\* running out): index.ts 182, 185-193
GotoReject(c) ==
    /\ pc[c] = "page.goto"
    /\ failure' = [failure EXCEPT ![c] = "page.goto"]
    /\ EnterFinally(c, ThrowCompletion("page.goto"))
    /\ UNCHANGED <<name, arguments, url, browser, htmlString, served, closeThrew>>
    /\ UNCHANGED convVars

\* page.content resolves: index.ts 183-193.  The page is kept for the return
\* and the finally block runs.
ContentResolve(c, html) ==
    /\ pc[c] = "page.content"
    /\ served' = [served EXCEPT ![c] = html]
    /\ htmlString' = [htmlString EXCEPT ![Frame(c)] = html]
    /\ EnterFinally(c, ReturnCompletion(html))
    /\ UNCHANGED <<name, arguments, url, browser, closeThrew, failure>>
    /\ UNCHANGED convVars

\* page.content rejects: index.ts 183, 185-193
ContentReject(c) ==
    /\ pc[c] = "page.content"
    /\ failure' = [failure EXCEPT ![c] = "page.content"]
    /\ EnterFinally(c, ThrowCompletion("page.content"))
    /\ UNCHANGED <<name, arguments, url, browser, htmlString, served, closeThrew>>
    /\ UNCHANGED convVars

\* browser.close resolves: index.ts 188, then the try block's completion
\* takes effect and the handler goes on.
CloseResolve(c) ==
    /\ pc[c] = "close"
    /\ chromium' = [chromium EXCEPT ![closing[c]].open = FALSE]
    /\ AfterHtml(c, completion[c])
    /\ UNCHANGED <<name, arguments, url, browser, htmlString, completion,
                   closing, served, closeThrew, failure>>
    /\ UNCHANGED convVars

\* browser.close rejects: index.ts 190-192.  The error is logged and dropped.
CloseRejectPropagates(c) ==
    /\ pc[c] = "close"
    /\ closeThrew' = [closeThrew EXCEPT ![c] = TRUE]
    /\ AfterHtml(c, ThrowCompletion("browser.close"))
    /\ UNCHANGED <<name, arguments, url, browser, htmlString, completion,
                   closing, served, failure, chromium>>
    /\ UNCHANGED convVars

CloseReject(c) ==
    /\ pc[c] = "close"
    /\ closeThrew' = [closeThrew EXCEPT ![c] = TRUE]
    /\ AfterHtml(c, completion[c])
    /\ UNCHANGED <<name, arguments, url, browser, htmlString, completion,
                   closing, served, failure, chromium>>
    /\ UNCHANGED convVars

NoConversion ==
    /\ doc = NoDocument
    /\ mainOnly = FALSE
    /\ strategy = ""
    /\ ruleNode = NoDocument
    /\ markdown = <<>>

NoCalls ==
    /\ pc = [c \in Calls |-> "idle"]
    /\ name = [c \in Calls |-> ""]
    /\ arguments = [c \in Calls |-> NoArguments]
    /\ url = [c \in Calls |-> ""]
    /\ browser = [c \in Calls |-> 0]
    /\ htmlString = [c \in Calls |-> NoDocument]
    /\ completion = [c \in Calls |-> NoCompletion]
    /\ closing = [c \in Calls |-> 0]
    /\ result = [c \in Calls |-> NoResult]
    /\ trace = [c \in Calls |-> <<>>]
    /\ served = [c \in Calls |-> NoDocument]
    /\ closeThrew = [c \in Calls |-> FALSE]
    /\ failure = [c \in Calls |-> ""]
    /\ chromium = [b \in Calls |->
                     [launched |-> FALSE, open |-> FALSE, closeCalls |-> 0,
                      closers |-> {}]]

Init == NoCalls /\ NoConversion

Next ==
    \E c \in Calls :
        \/ \E tool \in RequestNames, args \in ArgumentsValues : CallTool(c, tool, args)
        \/ \E data \in ServedDocuments : AxiosResolve(c, data)
        \/ AxiosReject(c)
        \/ LaunchResolve(c)
        \/ LaunchReject(c)
        \/ NewPageResolve(c)
        \/ NewPageReject(c)
        \/ GotoResolve(c)
        \/ GotoReject(c)
        \/ \E html \in ServedDocuments : ContentResolve(c, html)
        \/ ContentReject(c)
        \/ CloseResolve(c)
        \/ CloseReject(c)

Spec == Init /\ [][Next]_vars

(***************************************************************************)
(* Properties of the handler.                                              *)
(***************************************************************************)

Done(c) == pc[c] \in {"returned", "thrown"}

\* The arguments carry a url: an arguments object with a non-empty url string.
UrlSupplied(args) ==
    args.present /\ args.url.type = "string" /\ args.url.value # ""

\* The number of times call c started operation op.
Started(c, op) == Cardinality({i \in 1..Len(trace[c]) : trace[c][i].op = op})

\* The conversions call c ran.
Conversions(c) == {trace[c][i] : i \in {j \in 1..Len(trace[c]) : trace[c][j].op \in ConversionOps}}

\* What a call to `tool` returns when it runs alone and the network serves it
\* `content`.
AloneResult(tool, content) ==
    CASE tool = "get_raw_text" -> HtmlContent("raw", content)
      [] tool = "get_rendered_html" -> HtmlContent("html", content)
      [] tool = "get_markdown" -> MarkdownContent(ConvertNHM(content, FALSE))
      [] tool = "get_markdown_summary" -> MarkdownContent(ConvertTD(content, TRUE))
      [] OTHER -> NoResult

\* C1: a tool call whose arguments supply no url (no arguments object, no url
\* key, or an empty url) is rejected with an error before any fetch, browser
\* launch or conversion is started.
C1_NoUrlIsRejected ==
    \A c \in Calls :
        (pc[c] # "idle" /\ ~UrlSupplied(arguments[c]))
            => /\ pc[c] = "thrown"
               /\ result[c].status = "error"
               /\ trace[c] = <<>>

\* C2: in getHtmlString, once the launch has succeeded, browser.close() is
\* called exactly once before the call returns or throws, whichever step
\* failed or none; it is never called twice.
C2_ClosedExactlyOnce ==
    \A c \in Calls :
        /\ chromium[c].closeCalls <= 1
        /\ Started(c, "browser.close") <= 1
        /\ (Done(c) /\ chromium[c].launched)
               => /\ chromium[c].closeCalls = 1
                  /\ Started(c, "browser.close") = 1

C2_Witness ==
    \E c \in Calls :
        /\ pc[c] = "thrown"
        /\ failure[c] = "page.goto"
        /\ chromium[c].launched
        /\ chromium[c].closeCalls = 1

\* C3: when the raw fetch or a render step (launch, newPage, goto, content)
\* fails, the tool call fails with an error: it returns no content, it starts
\* no step a second time, and it runs no Markdown conversion.
C3_FailureFailsTheCall ==
    \A c \in Calls :
        /\ \A op \in {"axios.get", "chromium.launch", "browser.newPage",
                      "page.goto", "page.content"} : Started(c, op) <= 1
        /\ failure[c] # ""
               => /\ pc[c] # "returned"
                  /\ result[c].status # "content"
                  /\ Conversions(c) = {}
                  /\ Done(c) => (result[c].status = "error"
                                 /\ result[c].error = failure[c])

C3_Witness ==
    \E c \in Calls :
        /\ name[c] = "get_markdown"
        /\ failure[c] = "page.content"
        /\ pc[c] = "thrown"

\* C8: concurrent calls share no state.  Every browser is closed only by the
\* call that launched it, a call holds no browser but its own, and what a call
\* returns is what it would return alone, given its tool and the content the
\* network served to it.
C8_CallsAreIndependent ==
    \A c \in Calls :
        /\ chromium[c].closers \subseteq {c}
        /\ closing[c] \in {0, c}
        /\ (pc[c] \in {"browser.newPage", "page.goto", "page.content"})
               => browser[Frame(c)] = c
        /\ pc[c] = "returned" => result[c] = AloneResult(name[c], served[c])
        /\ pc[c] = "thrown" => result[c].status = "error"

C8_Witness ==
    \E c1, c2 \in Calls :
        /\ c1 # c2
        /\ pc[c1] = "returned"
        /\ name[c1] = "get_markdown_summary"
        /\ chromium[c1].launched /\ chromium[c2].launched
        /\ pc[c2] = "returned"
        /\ name[c2] = "get_markdown"
        /\ served[c1] # served[c2]

\* C9: a call with a url is routed by its name.  get_raw_text only fetches
\* and launches no browser; get_rendered_html returns the page unconverted;
\* get_markdown converts with mainOnly false and get_markdown_summary with
\* mainOnly true; no other tool converts; any other name fails with an error
\* and starts nothing.
C9_RoutedByName ==
    \A c \in Calls :
        (pc[c] # "idle" /\ UrlSupplied(arguments[c])) =>
            CASE name[c] = "get_raw_text" ->
                   /\ \A i \in 1..Len(trace[c]) : trace[c][i].op = "axios.get"
                   /\ ~chromium[c].launched
                   /\ pc[c] = "returned" => result[c] = HtmlContent("raw", served[c])
              [] name[c] = "get_rendered_html" ->
                   /\ Started(c, "axios.get") = 0
                   /\ Conversions(c) = {}
                   /\ pc[c] = "returned" => result[c] = HtmlContent("html", served[c])
              [] name[c] = "get_markdown" ->
                   /\ Started(c, "axios.get") = 0
                   /\ \A v \in Conversions(c) : v.main = FALSE
                   /\ pc[c] = "returned" =>
                          /\ Conversions(c) # {}
                          /\ result[c].format = "markdown"
                          /\ result[c].markdown \in {ConvertNHM(served[c], FALSE),
                                                     ConvertTD(served[c], FALSE)}
              [] name[c] = "get_markdown_summary" ->
                   /\ Started(c, "axios.get") = 0
                   /\ \A v \in Conversions(c) : v.main = TRUE
                   /\ pc[c] = "returned" =>
                          /\ Conversions(c) # {}
                          /\ result[c].format = "markdown"
                          /\ result[c].markdown \in {ConvertNHM(served[c], TRUE),
                                                     ConvertTD(served[c], TRUE)}
              [] OTHER ->
                   /\ pc[c] = "thrown"
                   /\ result[c].status = "error"
                   /\ trace[c] = <<>>

C9_Witness ==
    \E c1, c2 \in Calls :
        /\ pc[c1] = "returned" /\ name[c1] = "get_markdown_summary"
        /\ pc[c2] = "returned" /\ name[c2] = "get_markdown"
        /\ UrlSupplied(arguments[c1]) /\ UrlSupplied(arguments[c2])
        /\ served[c1] = served[c2]
        /\ result[c1] # result[c2]

\* C10: an error thrown by browser.close() does not change the outcome of
\* getHtmlString.  A captured page is still returned; an earlier failure is
\* the error that propagates; and after a failed launch close() is not called
\* and the launch error propagates.
C10_CloseErrorChangesNothing ==
    \A c \in Calls :
        Done(c) =>
            /\ result[c].error # "browser.close"
            /\ (closeThrew[c] /\ failure[c] = "")
                   => (pc[c] = "returned" /\ result[c] = AloneResult(name[c], served[c]))
            /\ (closeThrew[c] /\ failure[c] # "")
                   => (pc[c] = "thrown" /\ result[c].error = failure[c])
            /\ failure[c] = "chromium.launch"
                   => /\ Started(c, "browser.close") = 0
                      /\ chromium[c].closeCalls = 0
                      /\ result[c].error = "chromium.launch"

C10_Witness ==
    \E c1, c2 \in Calls :
        /\ closeThrew[c1] /\ pc[c1] = "returned"
        /\ closeThrew[c2] /\ pc[c2] = "thrown" /\ failure[c2] = "page.goto"

(***************************************************************************)
(* The conversions, applied to documents.                                  *)
(***************************************************************************)

\* The sequences over S of length at most n.
SeqsUpTo(S, n) == UNION {[1..k -> S] : k \in 0..n}

\* The elements whose text a conversion may have to leave out.
FilteredKinds == {"header", "footer", "nav", "script", "style"}

\* A filtered element with the word "X" in it, directly or in a paragraph
\* (script and style hold raw text only).
FilteredElements ==
    {El(k, <<Text(<<"X">>)>>) : k \in FilteredKinds}
    \cup {El(k, <<El("p", <<Text(<<"X">>)>>)>>) : k \in {"header", "footer", "nav"}}

\* The places of a document an element is put in.
Places == {"body", "div", "nav", "td", "th", "caption", "dt", "dd", "dl"}

Place(where, n) ==
    CASE where = "body" -> n
      [] where = "div" -> El("div", <<n>>)
      [] where = "nav" -> El("nav", <<n>>)
      [] where = "td" -> El("table", <<El("tr", <<El("td", <<n>>)>>)>>)
      [] where = "th" -> El("table", <<El("tr", <<El("th", <<n>>)>>)>>)
      [] where = "caption" ->
             El("table", <<El("caption", <<n>>),
                           El("tr", <<El("td", <<Text(<<"Cell">>)>>)>>)>>)
      [] where = "dt" ->
             El("dl", <<El("dt", <<n>>), El("dd", <<Text(<<"Def">>)>>)>>)
      [] where = "dd" ->
             El("dl", <<El("dt", <<Text(<<"Term">>)>>), El("dd", <<n>>)>>)
      [] OTHER ->
             El("dl", <<n, El("dt", <<Text(<<"Term">>)>>),
                        El("dd", <<Text(<<"Def">>)>>)>>)

\* Documents with one filtered element somewhere and a paragraph after it.
FilterDocuments ==
    {El("body", <<Place(where, n), El("p", <<Text(<<"Body">>)>>)>>) :
        where \in Places, n \in FilteredElements}

\* The most rows of a table and the most cells of a row.
MaxRows == 3

MaxCells == 2

\* What a cell holds: nothing, a word, two words on two source lines, or
\* preformatted text of two lines.
CellContents ==
    {<<>>,
     <<Text(<<"A">>)>>,
     <<Text(<<" ", "A", "\n", "B">>)>>,
     <<El("pre", <<Text(<<"P", "\n", "Q">>)>>)>>}

\* A row of th cells or of td cells.
TableRow(cell, contents) ==
    El("tr", [i \in 1..Len(contents) |-> El(cell, contents[i])])

\* Documents with one table: a row of th cells, then rows of td cells.
TableDocuments ==
    {El("body", <<El("table",
                     [i \in 1..Len(rows) |->
                         TableRow(IF i = 1 THEN "th" ELSE "td", rows[i])])>>) :
        rows \in SeqsUpTo(SeqsUpTo(CellContents, MaxCells), MaxRows)}

\* The most term/definition pairs of a definition list.
MaxPairs == 2

\* What the i-th term or definition holds: nothing, a blank, a word, or a
\* word between blanks.
ItemContents(word) ==
    {<<>>, <<Text(<<" ">>)>>, <<Text(<<word>>)>>, <<Text(<<" ", word, " ">>)>>}

TermWord(i) == <<"T1", "T2", "T3", "T4">>[i]

DefinitionWord(i) == <<"D1", "D2", "D3", "D4">>[i]

RECURSIVE ListsOfPairs(_)
\* The definition lists of k pairs: dt, dd, dt, dd, ...
ListsOfPairs(k) ==
    IF k = 0 THEN {El("dl", <<>>)}
    ELSE {El("dl", dl.kids \o <<El("dt", term), El("dd", definition)>>) :
              dl \in ListsOfPairs(k - 1),
              term \in ItemContents(TermWord(k)),
              definition \in ItemContents(DefinitionWord(k))}

\* Documents with one definition list.
ListDocuments ==
    {El("body", <<dl>>) : dl \in UNION {ListsOfPairs(k) : k \in 0..MaxPairs}}

Documents == FilterDocuments \cup TableDocuments \cup ListDocuments

\* getMarkdownStringFromHtmlByTD(url, mainOnly) once the page is there
RunTD ==
    /\ strategy = ""
    /\ strategy' = "TD"
    /\ markdown' = ConvertTD(doc, mainOnly)
    /\ UNCHANGED <<doc, mainOnly, ruleNode>>
    /\ UNCHANGED serverVars

\* getMarkdownStringFromHtmlByNHM(url, mainOnly) once the page is there
RunNHM ==
    /\ strategy = ""
    /\ NHMCovers(doc)
    /\ strategy' = "NHM"
    /\ markdown' = ConvertNHM(doc, mainOnly)
    /\ UNCHANGED <<doc, mainOnly, ruleNode>>
    /\ UNCHANGED serverVars

\* The replacement of the rule 'table', called by Turndown on a table of the
\* document
RunTableRule ==
    /\ strategy = ""
    /\ \E n \in {d \in Nodes(CollapseWhitespace(doc)) : d.kind = "table"} :
           /\ ruleNode' = n
           /\ markdown' = TableReplacement(n)
    /\ strategy' = "table rule"
    /\ UNCHANGED <<doc, mainOnly>>
    /\ UNCHANGED serverVars

\* The replacement of the rule 'dl', called by Turndown on a definition list
\* of the document
RunDlRule ==
    /\ strategy = ""
    /\ \E n \in {d \in Nodes(CollapseWhitespace(doc)) : d.kind = "dl"} :
           /\ ruleNode' = n
           /\ markdown' = DlReplacement(n)
    /\ strategy' = "dl rule"
    /\ UNCHANGED <<doc, mainOnly>>
    /\ UNCHANGED serverVars

InitConversion ==
    /\ NoCalls
    /\ doc \in Documents
    /\ mainOnly \in BOOLEAN
    /\ strategy = ""
    /\ ruleNode = NoDocument
    /\ markdown = <<>>

NextConversion == RunTD \/ RunNHM \/ RunTableRule \/ RunDlRule

SpecConversion == InitConversion /\ [][NextConversion]_vars

(***************************************************************************)
(* Properties of the conversions.                                          *)
(***************************************************************************)

\* The tokens of a string.
Tokens(s) == {s[i] : i \in 1..Len(s)}

\* The words (the tokens that are not white space) of the text under n.
Words(n) == Tokens(TextContent(n)) \ {" ", "\n", "\t"}

Converted == strategy \in {"TD", "NHM"}

RECURSIVE InnerWords(_)
\* The words of the text an element shows: those of the text under it that
\* is not script or style content.
InnerWords(n) ==
    IF IsText(n) THEN Tokens(n.text) \ {" ", "\n", "\t"}
    ELSE IF n.kind \in {"script", "style"} THEN {}
    ELSE UNION {InnerWords(n.kids[i]) : i \in 1..Len(n.kids)}

\* C4: for both conversions and every document with header, footer or nav
\* elements, with mainOnly true the output has none of the text of those
\* elements or of their descendants, and with mainOnly false it has that text.
C4_MainOnlyDropsHeaderFooterNav ==
    Converted =>
        \A d \in Nodes(doc) :
            d.kind \in {"header", "footer", "nav"} =>
                \A w \in InnerWords(d) :
                    IF mainOnly THEN w \notin Tokens(markdown)
                    ELSE w \in Tokens(markdown)

\* C5: for both conversions and both values of mainOnly, the text of every
\* script and style element is absent from the output; the excluded elements
\* are script and style, and header, footer and nav besides exactly when
\* mainOnly is true.
C5_ScriptAndStyleAlwaysDropped ==
    Converted =>
        /\ \A d \in Nodes(doc) :
               d.kind \in {"script", "style"} =>
                   \A w \in Words(d) : w \notin Tokens(markdown)
        /\ TDRemoved(mainOnly) =
               {"script", "style"}
               \cup (IF mainOnly THEN {"header", "footer", "nav"} ELSE {})
        /\ NHMIgnored(mainOnly) =
               {"script", "style"}
               \cup (IF mainOnly THEN {"header", "footer", "nav"} ELSE {})

\* C6: for a table whose header row has w cells and which has n further rows,
\* the fragment of the table rule is a line break, n+2 lines and a line break:
\* a header line, a separator line with exactly w '---' groups, and one line
\* per further row; for a table without rows it is the empty string.
C6_TableFragmentHasNPlus2Lines ==
    strategy = "table rule" =>
        LET rows  == QuerySelectorAll(ruleNode, {"tr"})
            lines == SplitLines(markdown)
        IN  IF Len(rows) = 0 THEN markdown = <<>>
            ELSE LET w == Len(QuerySelectorAll(rows[1], {"th", "td"}))
                     n == Len(rows) - 1
                 IN  /\ Len(lines) = n + 4
                     /\ lines[1] = <<>>
                     /\ lines[Len(lines)] = <<>>
                     /\ \A i \in 2..(Len(lines) - 1) :
                            /\ Len(lines[i]) >= 2
                            /\ Head(lines[i]) = "|"
                            /\ lines[i][Len(lines[i])] = "|"
                     /\ Count(lines[3], "---") = w
                     /\ Tokens(lines[3]) \subseteq {"|", "---"}

\* The term and the definition of the i-th pair of a list of pairs.
TermText(dl, i) == Trim(TextContent(CollapseWhitespace(dl.kids[2 * i - 1])))

DefinitionText(dl, i) == Trim(TextContent(CollapseWhitespace(dl.kids[2 * i])))

\* '**term:** definition'
PairLine(dl, i) ==
    <<"**">> \o TermText(dl, i) \o <<":", "**", " ">> \o DefinitionText(dl, i)

\* The first place sub occurs at in s (0: nowhere).
FirstOccurrence(s, sub) ==
    IF Contains(s, sub)
    THEN CHOOSE i \in 1..Len(s) :
             /\ SubSeq(s, i, i + Len(sub) - 1) = sub
             /\ \A j \in 1..(i - 1) : SubSeq(s, j, j + Len(sub) - 1) # sub
    ELSE 0

\* C7: for a definition list of pairs (dt_i, dd_i), the output of both
\* conversions has '**dt_i:** dd_i' for every pair whose trimmed term and
\* definition are not empty, in source order, and a dt whose trimmed text is
\* empty gives no '**' marker.
C7_DefinitionListPairs ==
    (Converted /\ doc \in ListDocuments) =>
        LET dl    == doc.kids[1]
            pairs == 1..(Len(dl.kids) \div 2)
            full  == {i \in pairs : TermText(dl, i) # <<>> /\ DefinitionText(dl, i) # <<>>}
        IN  /\ \A i \in full : Contains(markdown, PairLine(dl, i))
            /\ \A i, j \in full :
                   i < j => FirstOccurrence(markdown, PairLine(dl, i))
                            < FirstOccurrence(markdown, PairLine(dl, j))
            /\ Count(markdown, "**") =
                   2 * Cardinality({i \in pairs : TermText(dl, i) # <<>>})

====
